---- MODULE Spec2Model ----
(***************************************************************************)
(* claude-max-proxy: token lifecycle manager (src/src/auth.ts), request    *)
(* mutation pipeline, streaming response interceptor and request           *)
(* statistics ledger (src/src/server.ts).                                  *)
(*                                                                         *)
(* Four specifications share this module, one per component:               *)
(*   SpecAuth    getAccessToken / refreshToken under concurrent callers    *)
(*   SpecStream  messagesRelay's response handling and interceptStream     *)
(*   SpecLedger  recordRequest over long runs of completions               *)
(*   SpecBody    messagesRelay's body mutation pipeline                    *)
(* Each leaves the variables of the other components unchanged.            *)
(***************************************************************************)
EXTENDS Integers, Sequences, FiniteSets, TLC

(***************************************************************************)
(* Bounds of the model.                                                    *)
(***************************************************************************)
MaxCallers == 3
MaxRefreshes == 2
MaxTicks == 1
MaxRequests == 2
MaxSmallChunk == 2
MaxCompletions == 22
MaxBusyRecords == 2
MaxActive == 2
MaxSystemBlocks == 2
MaxTools == 2
MaxReplays == 1

(***************************************************************************)
(* Program constants.                                                      *)
(***************************************************************************)
EXPIRY_BUFFER_MS == 60000
ENV_VALIDITY_MS == 3600000
MAX_RECENT == 20
MAX_CACHE_BLOCKS == 4

NULL == 0

VARIABLES
    \* ---- auth.ts ----
    envToken,     \* process.env.CLAUDE_OAUTH_TOKEN is set
    envRefresh,   \* process.env.CLAUDE_OAUTH_REFRESH ("" when unset)
    file,         \* the credential file at AUTH_PATH
    fileWrites,   \* number of writeFile calls performed on AUTH_PATH
    now,          \* Date.now()
    ticks,        \* number of clock advances so far
    heap,         \* the AuthData objects allocated so far, by reference
    cached,       \* `cached`: NULL or a reference into heap
    refreshing,   \* `refreshing`: NULL or the index in ops of the promise held
    ops,          \* every refreshToken invocation so far
    pc,           \* per caller: position inside getAccessToken
    loaded,       \* per caller: what its readFile returned
    joined,       \* per caller: the refresh promise it awaits
    result,       \* per caller: what getAccessToken resolved or rejected with
    sawExpired,   \* per caller: cached was present and expired when it called
    epoch,        \* per such caller: refreshes already completed when it called
    \* ---- server.ts: response handling ----
    logEnabled,   \* THINKING_LOG_ENABLED
    stats,        \* `stats`, the statistics ledger
    clock,        \* Date: advances with every completion that is recorded
    reqs,         \* per create-message request: response relay and interceptor
    \* ---- server.ts: long runs of the ledger ----
    history,      \* every record passed to recordRequest so far, oldest first
    \* ---- server.ts: request pipeline ----
    config,       \* the feature switches read from the environment at startup
    customSystemPrompt,  \* `customSystemPrompt` once getCustomSystem has looked
    inBody,       \* the create-message body as the client sent it
    inBetas,      \* the client's anthropic-beta header ("" when absent)
    body,         \* `body`, mutated in place and then sent upstream
    betas,        \* the anthropic-beta header of `headers`
    relayed,      \* messagesRelay has reached its fetch
    replays       \* times the client sent the forwarded request back

authVars == <<envToken, envRefresh, file, fileWrites, now, ticks, heap, cached,
              refreshing, ops, pc, loaded, joined, result, sawExpired, epoch>>

streamVars == <<logEnabled, stats, clock, reqs>>

ledgerVars == <<history>>

bodyVars == <<config, customSystemPrompt, inBody, inBetas, body, betas, relayed,
              replays>>

vars == <<authVars, streamVars, ledgerVars, bodyVars>>

\* What the steps of one component leave alone.
OutsideAuth == <<streamVars, ledgerVars, bodyVars>>
OutsideStream == <<authVars, ledgerVars, bodyVars>>
OutsideLedger == <<authVars, bodyVars>>
OutsideBody == <<authVars, streamVars, ledgerVars>>

(***************************************************************************)
(* Token lifecycle manager                                                 *)
(***************************************************************************)
Callers == 1..MaxCallers

NoResult == [kind |-> "none", val |-> 0]
TokenResult(t) == [kind |-> "token", val |-> t]
ErrorResult(k, v) == [kind |-> k, val |-> v]

\* AuthData.anthropic
Cred(a, r, e) == [access |-> a, refresh |-> r, expires |-> e]

\* What the upstream token endpoint may answer: a fresh access token (named
\* after the refresh call that obtained it), an optional rotated refresh
\* token, and a lifetime in seconds.
Responses ==
    { [refresh_token |-> "", expires_in |-> 7200],
      [refresh_token |-> "r1", expires_in |-> 60] }
FailStatuses == {400}

\* The credential files the process may start with.
InitialFiles ==
    { [exists |-> TRUE, cred |-> Cred(0, "r0", 0)],
      [exists |-> TRUE, cred |-> Cred(0, "r0", 3600000)],
      [exists |-> TRUE, cred |-> Cred(0, "", 0)],
      [exists |-> FALSE, cred |-> Cred(0, "", 0)] }

\* A caller that holds no readFile result.
NoLoad == [exists |-> FALSE, cred |-> Cred(0, "", 0)]

\* Line 99: Date.now() < cached.anthropic.expires - EXPIRY_BUFFER_MS
IsValid(cr) == now < cr.expires - EXPIRY_BUFFER_MS

\* Lines 31-45: the AuthData built from the environment.
initFromEnv == Cred(0, envRefresh, now + ENV_VALIDITY_MS)

\* The refreshToken promises whose .finally callback has already run.
CompletedRefreshes == Cardinality({k \in 1..Len(ops) : ops[k].cbDone})

SlotFreeAlways == TRUE
\* Line 104: if (!refreshing)
SlotFree == refreshing = NULL

\* Lines 58-71: refreshToken up to its first await. Without a refresh token
\* it throws before any network call; otherwise one fetch is issued.
StartRefresh(h, ca) ==
    IF h[ca].refresh = ""
    THEN [auth |-> ca, before |-> h[ca], phase |-> "rejected", calls |-> 0,
          cbDone |-> FALSE, result |-> ErrorResult("no_refresh_token", 0)]
    ELSE [auth |-> ca, before |-> h[ca], phase |-> "fetch", calls |-> 1,
          cbDone |-> FALSE, result |-> NoResult]

\* Lines 99-107: the synchronous tail of getAccessToken, run against the
\* heap h and the cached reference ca the caller has just established.
TokenTail(c, h, ca) ==
    IF IsValid(h[ca])
    THEN /\ pc' = [pc EXCEPT ![c] = "done"]
         /\ result' = [result EXCEPT ![c] = TokenResult(h[ca].access)]
         /\ UNCHANGED <<ops, refreshing, joined>>
    ELSE IF SlotFree
    THEN /\ Len(ops) < MaxRefreshes
         /\ ops' = Append(ops, StartRefresh(h, ca))
         /\ refreshing' = Len(ops) + 1
         /\ joined' = [joined EXCEPT ![c] = Len(ops) + 1]
         /\ pc' = [pc EXCEPT ![c] = "waiting"]
         /\ UNCHANGED result
    ELSE /\ joined' = [joined EXCEPT ![c] = refreshing]
         /\ pc' = [pc EXCEPT ![c] = "waiting"]
         /\ UNCHANGED <<ops, refreshing, result>>

\* Callers are interchangeable; they enter getAccessToken in the order of
\* their numbers.
IsNextCaller(c) ==
    /\ pc[c] = "idle"
    /\ \A d \in Callers : d < c => pc[d] # "idle"

\* Lines 94-107, cached already present: no suspension.
CallCached(c) ==
    /\ IsNextCaller(c)
    /\ cached # NULL
    /\ sawExpired' = [sawExpired EXCEPT ![c] = ~IsValid(heap[cached])]
    /\ epoch' = [epoch EXCEPT ![c] =
                    IF IsValid(heap[cached]) THEN 0 ELSE CompletedRefreshes]
    /\ TokenTail(c, heap, cached)
    /\ UNCHANGED <<envToken, envRefresh, file, fileWrites, now, ticks, heap,
                   cached, loaded>>

\* Lines 94-107, cached absent and CLAUDE_OAUTH_TOKEN set: initFromEnv is
\* synchronous, so the call runs through without suspension.
CallEnv(c) ==
    /\ IsNextCaller(c)
    /\ cached = NULL
    /\ envToken
    /\ heap' = Append(heap, initFromEnv)
    /\ cached' = Len(heap) + 1
    /\ TokenTail(c, heap', cached')
    /\ UNCHANGED <<envToken, envRefresh, file, fileWrites, now, ticks, loaded,
                   sawExpired, epoch>>

\* Lines 95-96, cached absent and no environment token: the caller suspends
\* in `await readAuth()`.
CallLoad(c) ==
    /\ IsNextCaller(c)
    /\ cached = NULL
    /\ ~envToken
    /\ pc' = [pc EXCEPT ![c] = "loading"]
    /\ UNCHANGED <<envToken, envRefresh, file, fileWrites, now, ticks, heap,
                   cached, refreshing, ops, loaded, joined, result, sawExpired, epoch>>

\* Lines 47-50: readFile observes the file as it is at this moment.
ReadFile(c) ==
    /\ pc[c] = "loading"
    /\ loaded' = [loaded EXCEPT ![c] = file]
    /\ pc' = [pc EXCEPT ![c] = "loaded"]
    /\ UNCHANGED <<envToken, envRefresh, file, fileWrites, now, ticks, heap,
                   cached, refreshing, ops, joined, result, sawExpired, epoch>>

\* Line 96 resumes: readAuth rejected (no file), the caller fails.
ResumeFail(c) ==
    /\ pc[c] = "loaded"
    /\ ~loaded[c].exists
    /\ pc' = [pc EXCEPT ![c] = "done"]
    /\ result' = [result EXCEPT ![c] = ErrorResult("enoent", 0)]
    /\ loaded' = [loaded EXCEPT ![c] = NoLoad]
    /\ UNCHANGED <<envToken, envRefresh, file, fileWrites, now, ticks, heap,
                   cached, refreshing, ops, joined, sawExpired, epoch>>

\* Line 96 resumes: cached = <the freshly parsed object>, then lines 99-107.
Resume(c) ==
    /\ pc[c] = "loaded"
    /\ loaded[c].exists
    /\ heap' = Append(heap, loaded[c].cred)
    /\ cached' = Len(heap) + 1
    /\ TokenTail(c, heap', cached')
    /\ loaded' = [loaded EXCEPT ![c] = NoLoad]
    /\ UNCHANGED <<envToken, envRefresh, file, fileWrites, now, ticks,
                   sawExpired, epoch>>

\* Lines 84-86: the credential object is updated in place.
ApplyResponse(cr, k, rot, life) ==
    Cred(k, IF rot # "" THEN rot ELSE cr.refresh, now + life * 1000)

ApplyFailureEarlyWrite(cr, k, rot, life) == Cred(k, cr.refresh, cr.expires)

\* Lines 73-76: on a non-success answer the function throws before line 84,
\* so nothing is written to the object.
ApplyFailure(cr, k, rot, life) == cr

\* Lines 63-86: the token endpoint answers with success.
FetchOk(k) ==
    /\ k \in 1..Len(ops)
    /\ ops[k].phase = "fetch"
    /\ \E data \in Responses :
          heap' = [heap EXCEPT ![ops[k].auth] =
                      ApplyResponse(@, k, data.refresh_token, data.expires_in)]
    /\ ops' = [ops EXCEPT ![k].phase = "write"]
    /\ UNCHANGED <<envToken, envRefresh, file, fileWrites, now, ticks, cached,
                   refreshing, pc, loaded, joined, result, sawExpired, epoch>>

\* Lines 63-76: the token endpoint answers with a non-success status.
FetchFail(k) ==
    /\ k \in 1..Len(ops)
    /\ ops[k].phase = "fetch"
    /\ \E st \in FailStatuses :
          /\ ops' = [ops EXCEPT ![k].phase = "rejected",
                                ![k].result = ErrorResult("refresh_failed", st)]
          /\ heap' = [heap EXCEPT ![ops[k].auth] = ApplyFailure(@, k, "", 0)]
    /\ UNCHANGED <<envToken, envRefresh, file, fileWrites, now, ticks, cached,
                   refreshing, pc, loaded, joined, result, sawExpired, epoch>>

SkipWriteNever == FALSE
\* Line 54: if (process.env.CLAUDE_OAUTH_TOKEN) return;
SkipWrite == envToken

\* Lines 88-91 with writeAuth (52-56): persist, publish, resolve.
WriteDone(k) ==
    /\ k \in 1..Len(ops)
    /\ ops[k].phase = "write"
    /\ IF SkipWrite
       THEN UNCHANGED <<file, fileWrites>>
       ELSE /\ file' = [exists |-> TRUE, cred |-> heap[ops[k].auth]]
            /\ fileWrites' = fileWrites + 1
    /\ cached' = ops[k].auth
    /\ ops' = [ops EXCEPT ![k].phase = "fulfilled",
                          ![k].result = TokenResult(heap[ops[k].auth].access)]
    /\ UNCHANGED <<envToken, envRefresh, now, ticks, heap, refreshing, pc,
                   loaded, joined, result, sawExpired, epoch>>

SlotKept(k) == k
\* Line 105: the .finally callback, refreshing = null
SlotAfterFinally(k) == NULL

\* Lines 105-107: .finally(() => { refreshing = null; }) runs once the
\* refreshToken promise has settled; the promise .finally returned then
\* settles with the same outcome and, in the same microtask drain, every
\* caller that returned it from getAccessToken resumes with that outcome.
FinallyCb(k) ==
    /\ k \in 1..Len(ops)
    /\ ops[k].phase \in {"fulfilled", "rejected"}
    /\ ~ops[k].cbDone
    /\ refreshing' = SlotAfterFinally(k)
    /\ ops' = [ops EXCEPT ![k].cbDone = TRUE]
    /\ result' = [c \in Callers |->
                     IF pc[c] = "waiting" /\ joined[c] = k
                     THEN ops[k].result ELSE result[c]]
    /\ pc' = [c \in Callers |->
                 IF pc[c] = "waiting" /\ joined[c] = k THEN "done" ELSE pc[c]]
    /\ UNCHANGED <<envToken, envRefresh, file, fileWrites, now, ticks, heap,
                   cached, loaded, joined, sawExpired, epoch>>

\* Date.now() advances past the assumed validity of an environment token.
Tick ==
    /\ ticks < MaxTicks
    /\ ticks' = ticks + 1
    /\ now' = now + ENV_VALIDITY_MS
    /\ UNCHANGED <<envToken, envRefresh, file, fileWrites, heap, cached,
                   refreshing, ops, pc, loaded, joined, result, sawExpired, epoch>>

AuthInit ==
    /\ envToken \in BOOLEAN
    /\ envRefresh \in {"", "r0"}
    /\ (~envToken) => envRefresh = ""
    /\ file \in InitialFiles
    /\ envToken => file = NoLoad
    /\ fileWrites = 0
    /\ now = 0
    /\ ticks = 0
    /\ heap = <<>>
    /\ cached = NULL
    /\ refreshing = NULL
    /\ ops = <<>>
    /\ pc = [c \in Callers |-> "idle"]
    /\ loaded = [c \in Callers |-> NoLoad]
    /\ joined = [c \in Callers |-> NULL]
    /\ result = [c \in Callers |-> NoResult]
    /\ sawExpired = [c \in Callers |-> FALSE]
    /\ epoch = [c \in Callers |-> 0]

AuthNext ==
    \/ \E c \in Callers : CallCached(c) /\ UNCHANGED OutsideAuth
    \/ \E c \in Callers : CallEnv(c) /\ UNCHANGED OutsideAuth
    \/ \E c \in Callers : CallLoad(c) /\ UNCHANGED OutsideAuth
    \/ \E c \in Callers : ReadFile(c) /\ UNCHANGED OutsideAuth
    \/ \E c \in Callers : ResumeFail(c) /\ UNCHANGED OutsideAuth
    \/ \E c \in Callers : Resume(c) /\ UNCHANGED OutsideAuth
    \/ \E k \in 1..MaxRefreshes : FetchOk(k) /\ UNCHANGED OutsideAuth
    \/ \E k \in 1..MaxRefreshes : FetchFail(k) /\ UNCHANGED OutsideAuth
    \/ \E k \in 1..MaxRefreshes : WriteDone(k) /\ UNCHANGED OutsideAuth
    \/ \E k \in 1..MaxRefreshes : FinallyCb(k) /\ UNCHANGED OutsideAuth
    \/ Tick /\ UNCHANGED OutsideAuth


(***************************************************************************)
(* Statistics ledger                                                       *)
(***************************************************************************)
\* Lines 88-96: the initial `stats` object.
EmptyStats ==
    [totalRequests |-> 0, totalInputTokens |-> 0, totalOutputTokens |-> 0,
     totalCacheCreation |-> 0, totalCacheRead |-> 0,
     recentRequests |-> <<>>, activeRequests |-> 0]

\* JS Array.prototype.unshift / pop on a list held as a sequence.
Unshift(list, x) == <<x>> \o list
Pop(list) == SubSeq(list, 1, Len(list) - 1)

PushRecentDropNewest(list, rec) ==
    IF Len(Unshift(list, rec)) > MAX_RECENT
    THEN Tail(Unshift(list, rec))
    ELSE Unshift(list, rec)

\* Lines 106-107: stats.recentRequests.unshift(rec); if longer than
\* MAX_RECENT, pop().
PushRecent(list, rec) ==
    IF Len(Unshift(list, rec)) > MAX_RECENT
    THEN Pop(Unshift(list, rec))
    ELSE Unshift(list, rec)

recordRequestUnlessEmpty(st, rec) ==
    IF rec.inputTokens = 0 /\ rec.outputTokens = 0 THEN st
    ELSE [st EXCEPT !.totalRequests = @ + 1,
                    !.totalInputTokens = @ + rec.inputTokens,
                    !.totalOutputTokens = @ + rec.outputTokens,
                    !.totalCacheCreation = @ + rec.cacheCreation,
                    !.totalCacheRead = @ + rec.cacheRead,
                    !.recentRequests = PushRecent(@, rec)]

recordRequestOverwrite(st, rec) ==
    [st EXCEPT !.totalRequests = @ + 1,
               !.totalInputTokens = rec.inputTokens,
               !.totalOutputTokens = rec.outputTokens,
               !.totalCacheCreation = rec.cacheCreation,
               !.totalCacheRead = rec.cacheRead,
               !.recentRequests = PushRecent(@, rec)]

\* Lines 100-108: recordRequest(rec) applied to the ledger st.
recordRequest(st, rec) ==
    [st EXCEPT !.totalRequests = @ + 1,
               !.totalInputTokens = @ + rec.inputTokens,
               !.totalOutputTokens = @ + rec.outputTokens,
               !.totalCacheCreation = @ + rec.cacheCreation,
               !.totalCacheRead = @ + rec.cacheRead,
               !.recentRequests = PushRecent(@, rec)]

(***************************************************************************)
(* Streaming response interceptor                                          *)
(*                                                                         *)
(* A body is a sequence of symbols; a read delivers any non-empty run of   *)
(* the symbols not yet delivered.  The symbols are "\n", the two halves    *)
(* "data:" and " " of the data-line prefix, an event line "event:x", and   *)
(* JSON payloads: complete ones naming their event ("{S}", "{D}", ...) and *)
(* a truncated one ("{S").  TextDecoder.decode in stream mode maps the     *)
(* symbols read to the same symbols of text.  The transcript               *)
(* written by log() and the locals that only feed it (blockType, toolName, *)
(* toolInput) are left out: every log call sits inside the try/catch of    *)
(* lines 157-209 after the assignments to the telemetry locals.            *)
(***************************************************************************)
Requests == 1..MaxRequests

NL == "\n"
Sep == <<NL, NL>>
DataPrefix == <<"data:", " ">>

\* JSON.parse of a payload: the objects the known payloads denote.  A field
\* the object does not carry is Absent.
Absent == -1
EventOf(sym) ==
    CASE sym = "{S}" -> [type |-> "message_start", usage |-> TRUE,
                         input |-> 100, creation |-> 30, read |-> 20,
                         output |-> Absent, stop |-> "absent"]
      [] sym = "{D}" -> [type |-> "message_delta", usage |-> TRUE,
                         input |-> Absent, creation |-> Absent, read |-> Absent,
                         output |-> 7, stop |-> "end_turn"]
      [] sym = "{T}" -> [type |-> "content_block_delta", usage |-> FALSE,
                         input |-> Absent, creation |-> Absent, read |-> Absent,
                         output |-> Absent, stop |-> "absent"]
      [] sym = "{P}" -> [type |-> "ping", usage |-> FALSE,
                         input |-> Absent, creation |-> Absent, read |-> Absent,
                         output |-> Absent, stop |-> "absent"]

KnownPayloads == {"{S}", "{D}", "{T}", "{P}"}

\* Line 158: JSON.parse(dataLine.slice(6)) succeeds on a complete payload
\* and throws on anything else (a truncated "{S", an empty string, ...).
Parses(payload) ==
    /\ Len(payload) = 1
    /\ payload[1] \in KnownPayloads

\* x ?? 0
OrZero(x) == IF x = Absent THEN 0 ELSE x

\* Position of the first occurrence of sep in s at or after i, 0 if none.
RECURSIVE IndexOf(_, _, _)
IndexOf(s, sep, i) ==
    IF i + Len(sep) - 1 > Len(s) THEN 0
    ELSE IF SubSeq(s, i, i + Len(sep) - 1) = sep THEN i
    ELSE IndexOf(s, sep, i + 1)

\* String.prototype.split(sep) for a non-empty separator.
RECURSIVE Split(_, _)
Split(s, sep) ==
    LET j == IndexOf(s, sep, 1)
    IN  IF j = 0 THEN <<s>>
        ELSE <<SubSeq(s, 1, j - 1)>> \o Split(SubSeq(s, j + Len(sep), Len(s)), sep)

\* line.startsWith("data: ")
StartsWithData(line) ==
    /\ Len(line) >= Len(DataPrefix)
    /\ SubSeq(line, 1, Len(DataPrefix)) = DataPrefix

\* Line 155: part.split("\n").find((l) => l.startsWith("data: ")); the empty
\* sequence stands for undefined (no data line).
RECURSIVE FindDataLine(_)
FindDataLine(lines) ==
    IF lines = <<>> THEN <<>>
    ELSE IF StartsWithData(Head(lines)) THEN Head(lines)
    ELSE FindDataLine(Tail(lines))

\* The telemetry locals of interceptStream, lines 119-123.
InitialTelemetry ==
    [inputTokens |-> 0, outputTokens |-> 0, cacheCreation |-> 0,
     cacheRead |-> 0, stopReason |-> "?"]

ApplyEventSwapped(tel, data) ==
    IF data.type = "message_start"
    THEN [tel EXCEPT !.inputTokens = OrZero(data.input),
                     !.cacheCreation = OrZero(data.read),
                     !.cacheRead = OrZero(data.creation)]
    ELSE IF data.type = "message_delta" /\ data.usage
    THEN [tel EXCEPT !.outputTokens = OrZero(data.output),
                     !.stopReason = IF data.stop = "absent" THEN "?" ELSE data.stop]
    ELSE tel

\* Lines 159-208: the effect of one parsed event on the telemetry locals.
ApplyEvent(tel, data) ==
    IF data.type = "message_start"
    THEN [tel EXCEPT !.inputTokens = OrZero(data.input),
                     !.cacheCreation = OrZero(data.creation),
                     !.cacheRead = OrZero(data.read)]
    ELSE IF data.type = "message_delta" /\ data.usage
    THEN [tel EXCEPT !.outputTokens = OrZero(data.output),
                     !.stopReason = IF data.stop = "absent" THEN "?" ELSE data.stop]
    ELSE tel

\* Lines 155-209: one frame.  No data line, or a payload that does not
\* parse, leaves the locals alone.
ProcessPart(tel, part) ==
    LET dataLine == FindDataLine(Split(part, <<NL>>))
        payload == SubSeq(dataLine, Len(DataPrefix) + 1, Len(dataLine))
    IN  IF dataLine = <<>> THEN tel
        ELSE IF ~Parses(payload) THEN tel
        ELSE ApplyEvent(tel, EventOf(payload[1]))

\* Line 154: for (const part of parts)
RECURSIVE ProcessParts(_, _)
ProcessParts(tel, parts) ==
    IF parts = <<>> THEN tel
    ELSE ProcessParts(ProcessPart(tel, Head(parts)), Tail(parts))

\* Lines 150-152: buf += decode(value); parts = buf.split("\n\n");
\* buf = parts.pop() || "".
PartsOf(buf, value) == Split(buf \o value, Sep)
CompleteParts(buf, value) == Pop(PartsOf(buf, value))
PendingTail(buf, value) == PartsOf(buf, value)[Len(PartsOf(buf, value))]

\* Frames used to build upstream bodies.
Frame(sym) == DataPrefix \o <<sym>> \o Sep
EventFrame(sym) == <<"event:x", NL>> \o Frame(sym)

\* The upstream response bodies a request may meet.
Bodies ==
    << EventFrame("{S}") \o Frame("{D}"),
       Frame("{P}") \o DataPrefix \o <<"{S">> \o Sep \o DataPrefix \o <<"{D}">>,
       <<>> >>

\* The sizes a chunk may have when rest symbols are still to come: a few
\* symbols, or all of them.
ChunkSizes(rest) == {n \in 1..MaxSmallChunk : n <= rest} \cup {rest}

\* What messagesRelay knows of a request that has not been answered yet.
NewRequest ==
    [kind |-> "new", streaming |-> FALSE, body |-> 1, pos |-> 0, out |-> <<>>,
     buf |-> <<>>, tel |-> InitialTelemetry, pump |-> "idle", down |-> "none",
     up |-> "none", cancelled |-> FALSE, readFailed |-> FALSE, eos |-> FALSE,
     completed |-> FALSE, recorded |-> 0]

\* Lines 134-144: the RequestRecord built at end-of-stream.  durationMs is
\* left out; ts is the time of completion.
UsageRecord(q, t) ==
    [ts |-> t, model |-> "m", messages |-> 1,
     inputTokens |-> q.tel.inputTokens, outputTokens |-> q.tel.outputTokens,
     cacheCreation |-> q.tel.cacheCreation, cacheRead |-> q.tel.cacheRead,
     stopReason |-> q.tel.stopReason]

\* Line 393: THINKING_LOG_ENABLED && isStreaming && res.body
Intercepts(enabled, streaming) == enabled /\ streaming

\* Lines 375-402 with 112-128: the upstream response has arrived.  The body
\* is wrapped by interceptStream, whose start() issues the first read at
\* once, or handed to the Response as it is.
StartRequest(r) ==
    /\ reqs[r].kind = "new"
    /\ \A p \in Requests : p < r => reqs[p].kind # "new"
    /\ \E streaming \in BOOLEAN, b \in 1..Len(Bodies) :
          IF Intercepts(logEnabled, streaming)
          THEN /\ reqs' = [reqs EXCEPT ![r] =
                              [@ EXCEPT !.kind = "intercepted",
                                        !.streaming = streaming, !.body = b,
                                        !.pump = "reading", !.down = "readable",
                                        !.up = "open"]]
               /\ stats' = [stats EXCEPT !.activeRequests = @ + 1]
          ELSE /\ b = 1
               /\ reqs' = [reqs EXCEPT ![r] =
                              [@ EXCEPT !.kind = "passthrough",
                                        !.streaming = streaming,
                                        !.down = "readable", !.up = "open"]]
               /\ UNCHANGED stats
    /\ UNCHANGED <<logEnabled, clock>>

\* The pump has left its loop through the catch of lines 212-214: its
\* locals are dead, and the stream it fed is errored or cancelled and holds
\* no chunks any more.
Stopped(q) ==
    [q EXCEPT !.pump = "stopped", !.pos = 0, !.out = <<>>, !.buf = <<>>,
              !.tel = InitialTelemetry]

\* controller.enqueue(value) on the stream handed downstream: it appends
\* while the stream is readable and throws once the consumer cancelled it.
CanEnqueue(q) == q.down = "readable"

ForwardUnlessBlank(out, value) ==
    IF \A i \in 1..Len(value) : value[i] = NL THEN out ELSE out \o value

\* Line 148: controller.enqueue(value)
Forward(out, value) == out \o value

\* Lines 133-144: what end-of-stream does to the ledger.
OnDone(st, q, t) ==
    recordRequest([st EXCEPT !.activeRequests = @ - 1], UsageRecord(q, t))

OnErrorRecordPartial(st, q, t) ==
    [st EXCEPT !.totalRequests = @ + 1,
               !.recentRequests = PushRecent(@, UsageRecord(q, t))]

\* Lines 212-214: the catch block calls controller.error(err) and nothing
\* else; the ledger is not touched.
OnError(st, q, t) == st

\* The number of records a step appended to the ledger.
RecordsAdded(st, st2) == st2.totalRequests - st.totalRequests

\* The symbols of its body that request r has not been delivered yet.
Remaining(r) == Len(Bodies[reqs[r].body]) - reqs[r].pos

\* Lines 131, 148-210: a read resolves with a chunk of n symbols.
ReadChunk(r, n) ==
    LET q == reqs[r]
        value == SubSeq(Bodies[q.body], q.pos + 1, q.pos + n)
    IN  /\ q.kind = "intercepted"
        /\ q.pump = "reading"
        /\ n >= 1
        /\ IF CanEnqueue(q)
           THEN reqs' = [reqs EXCEPT ![r] =
                    [@ EXCEPT !.pos = q.pos + n,
                              !.out = Forward(q.out, value),
                              !.tel = ProcessParts(q.tel, CompleteParts(q.buf, value)),
                              !.buf = PendingTail(q.buf, value)]]
           \* enqueue throws; line 213 controller.error is a no-op on a
           \* closed stream; the loop is left with the reader still locked.
           ELSE /\ n = 1
                /\ reqs' = [reqs EXCEPT ![r] = Stopped(q)]
        /\ UNCHANGED <<logEnabled, stats, clock>>

\* Lines 132-147: a read resolves with done.
ReadDone(r) ==
    LET q == reqs[r]
    IN  /\ q.kind = "intercepted"
        /\ q.pump = "reading"
        /\ q.pos = Len(Bodies[q.body])
        /\ clock' = clock + 1
        /\ stats' = OnDone(stats, q, clock')
        \* controller.close() closes a readable stream and throws on a
        \* cancelled one, which line 213 then ignores.
        /\ reqs' = [reqs EXCEPT ![r] =
              [@ EXCEPT !.pump = "stopped", !.up = "ended", !.eos = TRUE,
                        !.recorded = @ + RecordsAdded(stats, stats'),
                        !.completed = (q.down = "readable"),
                        !.down = IF q.down = "readable" THEN "closed" ELSE @]]
        /\ UNCHANGED logEnabled

\* Lines 131, 212-214: a read rejects.
ReadError(r) ==
    LET q == reqs[r]
    IN  /\ q.kind = "intercepted"
        /\ q.pump = "reading"
        /\ stats' = OnError(stats, q, clock)
        /\ reqs' = [reqs EXCEPT ![r] =
              [Stopped(q) EXCEPT
                  !.up = "failed", !.readFailed = TRUE,
                  !.recorded = @ + RecordsAdded(stats, stats'),
                  !.down = IF q.down = "readable" THEN "errored" ELSE @]]
        /\ UNCHANGED <<logEnabled, clock>>

\* Lines 126-216: the downstream consumer cancels the stream.  The
\* underlying source defines start() only - no cancel() - so the stream
\* closes and nothing reaches the pump or the upstream reader.
Cancel(r) ==
    LET q == reqs[r]
    IN  /\ q.kind = "intercepted"
        /\ q.down = "readable"
        /\ reqs' = [reqs EXCEPT ![r] =
              [@ EXCEPT !.down = "cancelled", !.cancelled = TRUE, !.out = <<>>]]
        /\ UNCHANGED <<logEnabled, stats, clock>>

\* Lines 393-401: a body that is not intercepted is relayed by the runtime
\* until it ends; server.ts runs no code for it.
PassThroughEnd(r) ==
    LET q == reqs[r]
    IN  /\ q.kind = "passthrough"
        /\ q.down = "readable"
        /\ reqs' = [reqs EXCEPT ![r] =
              [@ EXCEPT !.down = "closed", !.up = "ended", !.eos = TRUE,
                        !.completed = TRUE]]
        /\ UNCHANGED <<logEnabled, stats, clock>>

StreamInit ==
    /\ logEnabled \in BOOLEAN
    /\ stats = EmptyStats
    /\ clock = 0
    /\ reqs = [r \in Requests |-> NewRequest]

StreamIdle ==
    /\ logEnabled = TRUE
    /\ stats = EmptyStats
    /\ clock = 0
    /\ reqs = [r \in Requests |-> NewRequest]

StreamNext ==
    \/ \E r \in Requests : StartRequest(r) /\ UNCHANGED OutsideStream
    \/ \E r \in Requests : \E n \in ChunkSizes(Remaining(r)) : ReadChunk(r, n) /\ UNCHANGED OutsideStream
    \/ \E r \in Requests : ReadDone(r) /\ UNCHANGED OutsideStream
    \/ \E r \in Requests : ReadError(r) /\ UNCHANGED OutsideStream
    \/ \E r \in Requests : Cancel(r) /\ UNCHANGED OutsideStream
    \/ \E r \in Requests : PassThroughEnd(r) /\ UNCHANGED OutsideStream

(***************************************************************************)
(* Long runs of the ledger                                                 *)
(*                                                                         *)
(* The same two steps of interceptStream that touch `stats`, taken for     *)
(* streams whose reads are not followed one by one: a stream is opened     *)
(* (line 124) and, later, reaches end-of-stream with the telemetry its     *)
(* body left in the locals (lines 132-144).  The steps of lines 133-144    *)
(* run without an await between them, so completions of different streams  *)
(* are applied one after the other, in any order.                          *)
(***************************************************************************)
\* The telemetry a stream may end with: nothing observed, or the events of
\* the first upstream body.
FinalTelemetries ==
    {InitialTelemetry,
     ProcessParts(InitialTelemetry, CompleteParts(<<>>, Bodies[1]))}

\* Records of history that carry token counts.
RECURSIVE BusyRecords(_)
BusyRecords(h) ==
    IF h = <<>> THEN 0
    ELSE (IF Head(h).inputTokens > 0 THEN 1 ELSE 0) + BusyRecords(Tail(h))

\* Line 124: stats.activeRequests++
StreamOpened ==
    /\ stats.activeRequests < MaxActive
    /\ stats.totalRequests + stats.activeRequests < MaxCompletions
    /\ stats' = [stats EXCEPT !.activeRequests = @ + 1]
    /\ UNCHANGED <<logEnabled, clock, reqs, history>>

\* Lines 132-144: end-of-stream of some open stream.
StreamCompleted ==
    /\ stats.activeRequests > 0
    /\ \E tel \in FinalTelemetries :
          LET q == [NewRequest EXCEPT !.tel = tel]
          IN  /\ tel # InitialTelemetry => BusyRecords(history) < MaxBusyRecords
              /\ clock' = clock + 1
              /\ stats' = OnDone(stats, q, clock')
              /\ history' = Append(history, UsageRecord(q, clock'))
    /\ UNCHANGED <<logEnabled, reqs>>

LedgerInit ==
    /\ logEnabled = TRUE
    /\ stats = EmptyStats
    /\ clock = 0
    /\ reqs = [r \in Requests |-> NewRequest]
    /\ history = <<>>

LedgerIdle == history = <<>>

LedgerNext ==
    \/ StreamOpened /\ UNCHANGED OutsideLedger
    \/ StreamCompleted /\ UNCHANGED OutsideLedger

(***************************************************************************)
(* Request pipeline of messagesRelay                                       *)
(*                                                                         *)
(* A string is a sequence of tokens, so that includes(), replace(),        *)
(* split() and trim() are computed on it as JavaScript computes them on    *)
(* characters.  <<>> is the empty string, which JavaScript takes for       *)
(* false, as it does null and undefined.  A cache_control annotation is a  *)
(* flag: TRUE for an object, FALSE for a missing property.                 *)
(***************************************************************************)
CC_SYSTEM == <<"You are Claude Code">>
EXTENDED_SUFFIX == <<"[1m]">>
OPUS == <<"opus">>
COMPACT_EDIT == "compact_20260112"
CLEAR_TOOLS_EDIT == "clear_tool_uses_20250919"
WEB_FETCH_TOOL == "web_fetch_20250910"
REQUIRED_BETAS == << <<"oauth-2025-04-20">>, <<"claude-code-20250219">> >>
COMPACTION_BETA == <<"compact-2026-01-12">>
CONTEXT_MGMT_BETA == <<"context-management-2025-06-27">>
WEB_FETCH_BETA == <<"web-fetch-2025-09-10">>
Comma == <<",">>

\* String.prototype.includes(sub)
Includes(str, sub) == IndexOf(str, sub, 1) # 0

\* String.prototype.replace(sub, by) with a string pattern: the first
\* occurrence only.
ReplaceFirst(str, sub, by) ==
    LET j == IndexOf(str, sub, 1)
    IN  IF j = 0 THEN str
        ELSE SubSeq(str, 1, j - 1) \o by \o SubSeq(str, j + Len(sub), Len(str))

SeqsUpTo(S, n) == UNION {[1..k -> S] : k \in 0..n}

\* ---- the bodies a client may send ----
TextBlock(text) ==
    [type |-> "text", text |-> text, cache_control |-> FALSE, _proxy |-> FALSE]

BlockInputs ==
    {TextBlock(CC_SYSTEM),
     TextBlock(<<"other">>),
     [TextBlock(<<"other">>) EXCEPT !.cache_control = TRUE],
     [TextBlock(<<"custom">>) EXCEPT !._proxy = TRUE],
     [TextBlock(<<"note: ">> \o CC_SYSTEM) EXCEPT !.type = "image",
                                                  !.cache_control = TRUE]}

NoSystem == [kind |-> "absent", text |-> <<>>, blocks |-> <<>>]
StringSystem(text) == [kind |-> "string", text |-> text, blocks |-> <<>>]
ListSystem(blocks) == [kind |-> "list", text |-> <<>>, blocks |-> blocks]

SystemInputs ==
    {NoSystem}
    \cup {StringSystem(t) : t \in {<<>>, <<"other">>, <<"intro: ">> \o CC_SYSTEM}}
    \cup {ListSystem(b) : b \in SeqsUpTo(BlockInputs, MaxSystemBlocks)}

ContentBlock(annotated) == [type |-> "text", cache_control |-> annotated]
Message(content) == [role |-> "user", content |-> content]

MessageInputs ==
    {<<>>,
     <<Message(<<ContentBlock(FALSE)>>)>>,
     <<Message(<<ContentBlock(TRUE)>>)>>,
     <<Message(<<ContentBlock(TRUE), ContentBlock(FALSE)>>),
       Message(<<ContentBlock(TRUE)>>)>>}

Tool(type, annotated) == [type |-> type, cache_control |-> annotated]
NoTools == [kind |-> "absent", items |-> <<>>]
ToolList(items) == [kind |-> "list", items |-> items]

ToolInputs ==
    {NoTools}
    \cup {ToolList(t) :
             t \in SeqsUpTo({Tool("custom", FALSE), Tool("custom", TRUE),
                             Tool(WEB_FETCH_TOOL, FALSE)}, MaxTools)}

NoModel == [kind |-> "absent", id |-> <<>>]
Model(id) == [kind |-> "string", id |-> id]

ModelInputs ==
    {NoModel,
     Model(<<"claude-">> \o OPUS),
     Model(<<"claude-">> \o OPUS \o EXTENDED_SUFFIX),
     Model(<<"claude-sonnet">> \o EXTENDED_SUFFIX),
     Model(EXTENDED_SUFFIX \o OPUS \o EXTENDED_SUFFIX)}

Edit(type) == [type |-> type]
NoContext == [kind |-> "absent", editsIsArray |-> FALSE, edits |-> <<>>]
ContextWithout == [kind |-> "object", editsIsArray |-> FALSE, edits |-> <<>>]
Context(edits) == [kind |-> "object", editsIsArray |-> TRUE, edits |-> edits]

ContextInputs ==
    {NoContext, ContextWithout, Context(<<>>),
     Context(<<Edit("clear_thinking_20251015")>>),
     Context(<<Edit(COMPACT_EDIT), Edit("clear_thinking_20251015")>>),
     Context(<<Edit(CLEAR_TOOLS_EDIT), Edit(CLEAR_TOOLS_EDIT)>>)}

BetaInputs ==
    {<<>>,
     <<"x">>,
     <<"x", ",", " ", "x">>,
     COMPACTION_BETA,
     COMPACTION_BETA \o <<"-preview">>,
     WEB_FETCH_BETA \o Comma \o REQUIRED_BETAS[1]}

DefaultConfig ==
    [CACHE_ENABLED |-> TRUE, WEB_FETCH_ENABLED |-> TRUE,
     COMPACTION_ENABLED |-> TRUE, CLEAR_TOOLS_ENABLED |-> TRUE,
     MAX_TOKENS_OVERRIDE |-> NULL]

\* ---- lines 48-62 and 256-284: the system prompt ----
\* getCustomSystem(): the trimmed content of the prompt file, or null when
\* the file is missing or empty.
getCustomSystem == customSystemPrompt

\* Lines 259-263: system becomes a list.
NormalizeSystem(system) ==
    IF system.kind = "absent" THEN <<>>
    ELSE IF system.kind = "string"
    THEN (IF system.text = <<>> THEN <<>> ELSE <<TextBlock(system.text)>>)
    ELSE system.blocks

\* Lines 265-267
hasAuth(blocks) ==
    \E i \in 1..Len(blocks) :
        blocks[i].type = "text" /\ Includes(blocks[i].text, CC_SYSTEM)

\* Lines 273-275
hasCustom(blocks) ==
    \E i \in 1..Len(blocks) : blocks[i].type = "text" /\ blocks[i]._proxy

\* Array.prototype.splice(1, 0, x)
SpliceAtOne(list, x) == SubSeq(list, 1, 1) \o <<x>> \o SubSeq(list, 2, Len(list))

\* Lines 256-284: ensureSystem(body), as the list it leaves in body.system.
ensureSystem(system, custom) ==
    LET given == NormalizeSystem(system)
        withAuth == IF hasAuth(given) THEN given
                    ELSE <<TextBlock(CC_SYSTEM)>> \o given
    IN  IF custom # <<>> /\ ~hasCustom(withAuth)
        THEN SpliceAtOne(withAuth, [TextBlock(custom) EXCEPT !._proxy = TRUE])
        ELSE withAuth

\* Lines 298-300: delete block._proxy
StripMarkers(blocks) ==
    [i \in 1..Len(blocks) |-> [blocks[i] EXCEPT !._proxy = FALSE]]

\* Line 295
RewriteModel(model) ==
    IF model.kind = "string" /\ Includes(model.id, EXTENDED_SUFFIX)
    THEN [model EXCEPT !.id = ReplaceFirst(@, EXTENDED_SUFFIX, <<>>)]
    ELSE model

\* ---- lines 302-331: prompt caching ----
\* countCache on a list of objects that carry the annotation themselves.
CountAnnotated(list) ==
    Cardinality({i \in 1..Len(list) : list[i].cache_control})

\* countCache(body.messages): each message is searched through its content.
RECURSIVE CountInMessages(_)
CountInMessages(messages) ==
    IF messages = <<>> THEN 0
    ELSE CountAnnotated(Head(messages).content) + CountInMessages(Tail(messages))

\* Lines 305-318: countCache(body.system) + countCache(body.messages) +
\* countCache(body.tools); a string or a missing property counts 0.
countCache(b) ==
    (IF b.system.kind = "list" THEN CountAnnotated(b.system.blocks) ELSE 0)
    + CountInMessages(b.messages)
    + (IF b.tools.kind = "list" THEN CountAnnotated(b.tools.items) ELSE 0)

UnderBudgetInclusive(existing) == existing <= MAX_CACHE_BLOCKS
\* Lines 320 and 326: existing < MAX_CACHE_BLOCKS
UnderBudget(existing) == existing < MAX_CACHE_BLOCKS

\* list[list.length - 1].cache_control = { type: "ephemeral" }
AnnotateLast(list) == [list EXCEPT ![Len(list)].cache_control = TRUE]

\* Lines 318-330
PlaceCache(b) ==
    LET existing == countCache(b)
        onSystem == /\ UnderBudget(existing)
                    /\ b.system.kind = "list"
                    /\ Len(b.system.blocks) > 0
                    /\ ~b.system.blocks[Len(b.system.blocks)].cache_control
        after == IF onSystem THEN existing + 1 ELSE existing
        onTools == /\ UnderBudget(after)
                   /\ b.tools.kind = "list"
                   /\ Len(b.tools.items) > 0
                   /\ ~b.tools.items[Len(b.tools.items)].cache_control
    IN  [b EXCEPT !.system.blocks = IF onSystem THEN AnnotateLast(@) ELSE @,
                  !.tools.items = IF onTools THEN AnnotateLast(@) ELSE @]

\* ---- lines 336-351: context management ----
\* Line 337
isOpus(model) == model.kind = "string" /\ Includes(model.id, OPUS)

HasEdit(edits, type) == \E i \in 1..Len(edits) : edits[i].type = type

PushEditAlways(edits, enabled, type) ==
    IF enabled THEN Append(edits, Edit(type)) ELSE edits

\* Lines 342-350: push the edit when its feature is on and no edit of that
\* type is in the list.
PushEdit(edits, enabled, type) ==
    IF enabled /\ ~HasEdit(edits, type) THEN Append(edits, Edit(type)) ELSE edits

\* Lines 339-350
ManageContext(cm, cfg) ==
    LET edits == IF cm.kind = "object" /\ cm.editsIsArray THEN cm.edits ELSE <<>>
    IN  Context(PushEdit(PushEdit(edits, cfg.COMPACTION_ENABLED, COMPACT_EDIT),
                         cfg.CLEAR_TOOLS_ENABLED, CLEAR_TOOLS_EDIT))

\* ---- lines 353-363: server-side web fetch ----
InjectWebFetch(tools) ==
    LET items == IF tools.kind = "list" THEN tools.items ELSE <<>>
    IN  IF \E i \in 1..Len(items) : items[i].type = WEB_FETCH_TOOL
        THEN ToolList(items)
        ELSE ToolList(Append(items, Tool(WEB_FETCH_TOOL, FALSE)))

\* ---- lines 294-363: the body sent upstream ----
MutateBody(b, custom, cfg) ==
    LET b1 == [b EXCEPT !.system = ListSystem(ensureSystem(b.system, custom)),
                        !.model = RewriteModel(@)]
        b2 == [b1 EXCEPT !.system.blocks = StripMarkers(@)]
        b3 == IF cfg.CACHE_ENABLED THEN PlaceCache(b2) ELSE b2
        b4 == IF cfg.MAX_TOKENS_OVERRIDE # NULL
              THEN [b3 EXCEPT !.max_tokens = cfg.MAX_TOKENS_OVERRIDE] ELSE b3
        b5 == IF isOpus(b4.model)
              THEN [b4 EXCEPT !.context_management = ManageContext(@, cfg)]
              ELSE b4
    IN  IF cfg.WEB_FETCH_ENABLED
        THEN [b5 EXCEPT !.tools = InjectWebFetch(@)] ELSE b5

\* ---- lines 224-242 and 365-373: the anthropic-beta header ----
\* String.prototype.trim() for the space token.
RECURSIVE Trim(_)
Trim(str) ==
    IF str = <<>> THEN str
    ELSE IF Head(str) = " " THEN Trim(Tail(str))
    ELSE IF str[Len(str)] = " " THEN Trim(SubSeq(str, 1, Len(str) - 1))
    ELSE str

\* Set.prototype.add on a Set held in insertion order.
SetAdd(list, x) ==
    IF \E i \in 1..Len(list) : list[i] = x THEN list ELSE Append(list, x)

RECURSIVE SetOf(_)
SetOf(list) ==
    IF list = <<>> THEN <<>>
    ELSE SetAdd(SetOf(SubSeq(list, 1, Len(list) - 1)), list[Len(list)])

RECURSIVE AddAll(_, _)
AddAll(list, xs) ==
    IF xs = <<>> THEN list ELSE AddAll(SetAdd(list, Head(xs)), Tail(xs))

\* Array.prototype.join(",")
RECURSIVE Join(_)
Join(list) ==
    IF list = <<>> THEN <<>>
    ELSE IF Len(list) = 1 THEN list[1]
    ELSE list[1] \o Comma \o Join(Tail(list))

\* Lines 235-239 of buildHeaders; STRIPPED_BETAS is empty.
buildHeaders(existing) ==
    LET flags == IF existing = <<>> THEN <<>>
                 ELSE [i \in 1..Len(Split(existing, Comma)) |->
                          Trim(Split(existing, Comma)[i])]
    IN  Join(AddAll(SetOf(flags), REQUIRED_BETAS))

\* Lines 366-373
AddBetas(betaHeader, opus, cfg) ==
    LET want(on, flag) == IF on /\ ~Includes(betaHeader, flag) THEN <<flag>> ELSE <<>>
        betasToAdd == want(opus /\ cfg.COMPACTION_ENABLED, COMPACTION_BETA)
                      \o want(opus /\ cfg.CLEAR_TOOLS_ENABLED, CONTEXT_MGMT_BETA)
                      \o want(cfg.WEB_FETCH_ENABLED, WEB_FETCH_BETA)
    IN  IF betasToAdd = <<>> THEN betaHeader
        ELSE IF betaHeader # <<>> THEN betaHeader \o Comma \o Join(betasToAdd)
        ELSE Join(betasToAdd)

\* Lines 288-382: messagesRelay from the parsed request to the fetch, once
\* getAccessToken has resolved.
messagesRelay ==
    /\ ~relayed
    /\ body' = MutateBody(body, getCustomSystem, config)
    /\ betas' = AddBetas(buildHeaders(betas), isOpus(body'.model), config)
    /\ relayed' = TRUE
    /\ UNCHANGED <<config, customSystemPrompt, inBody, inBetas, replays>>

\* Line 293: the next request arrives, and its body and beta header are
\* the ones the proxy forwarded for the previous request.
Replay ==
    /\ relayed
    /\ replays < MaxReplays
    /\ replays' = replays + 1
    /\ inBody' = body
    /\ inBetas' = betas
    /\ relayed' = FALSE
    /\ UNCHANGED <<config, customSystemPrompt, body, betas>>

NewBody(system, model, messages, tools, maxTokens, cm) ==
    [system |-> system, model |-> model, messages |-> messages, tools |-> tools,
     max_tokens |-> maxTokens, context_management |-> cm]

\* The requests examined: bodies that differ in system, messages and tools
\* under each setting of caching, web fetch and the custom prompt; and
\* bodies that differ in model, context_management, max_tokens and beta
\* header under each setting of the other switches.
BodyInit ==
    /\ relayed = FALSE
    /\ replays = 0
    /\ \/ \E s \in SystemInputs, m \in MessageInputs, t \in ToolInputs,
             cache \in BOOLEAN, fetch \in BOOLEAN,
             custom \in {<<>>, <<"custom">>} :
              /\ config = [DefaultConfig EXCEPT !.CACHE_ENABLED = cache,
                                                !.WEB_FETCH_ENABLED = fetch]
              /\ customSystemPrompt = custom
              /\ inBody = NewBody(s, Model(<<"claude-sonnet">>), m, t, 1024, NoContext)
              /\ inBetas = <<>>
       \/ \E mo \in ModelInputs, cm \in ContextInputs, h \in BetaInputs,
             mt \in {Absent, 1024}, override \in {NULL, 64000},
             compaction \in BOOLEAN, clear \in BOOLEAN, fetch \in BOOLEAN :
              /\ config = [DefaultConfig EXCEPT !.COMPACTION_ENABLED = compaction,
                                                !.CLEAR_TOOLS_ENABLED = clear,
                                                !.WEB_FETCH_ENABLED = fetch,
                                                !.MAX_TOKENS_OVERRIDE = override]
              /\ customSystemPrompt = <<>>
              /\ inBody = NewBody(NoSystem, mo, <<>>, NoTools, mt, cm)
              /\ inBetas = h
    /\ body = inBody
    /\ betas = inBetas

BodyIdle ==
    /\ relayed = FALSE
    /\ replays = 0
    /\ config = DefaultConfig
    /\ customSystemPrompt = <<>>
    /\ inBody = NewBody(NoSystem, NoModel, <<>>, NoTools, Absent, NoContext)
    /\ inBetas = <<>>
    /\ body = inBody
    /\ betas = inBetas

BodyNext ==
    \/ messagesRelay /\ UNCHANGED OutsideBody
    \/ Replay /\ UNCHANGED OutsideBody

AuthIdle ==
    /\ envToken = FALSE
    /\ envRefresh = ""
    /\ file = NoLoad
    /\ fileWrites = 0
    /\ now = 0
    /\ ticks = 0
    /\ heap = <<>>
    /\ cached = NULL
    /\ refreshing = NULL
    /\ ops = <<>>
    /\ pc = [c \in Callers |-> "idle"]
    /\ loaded = [c \in Callers |-> NoLoad]
    /\ joined = [c \in Callers |-> NULL]
    /\ result = [c \in Callers |-> NoResult]
    /\ sawExpired = [c \in Callers |-> FALSE]
    /\ epoch = [c \in Callers |-> 0]

InitAuth == AuthInit /\ StreamIdle /\ LedgerIdle /\ BodyIdle

SpecAuth == InitAuth /\ [][AuthNext]_vars

InitStream == StreamInit /\ AuthIdle /\ LedgerIdle /\ BodyIdle

SpecStream == InitStream /\ [][StreamNext]_vars

InitLedger == LedgerInit /\ AuthIdle /\ BodyIdle

SpecLedger == InitLedger /\ [][LedgerNext]_vars

InitBody == BodyInit /\ AuthIdle /\ StreamIdle /\ LedgerIdle

SpecBody == InitBody /\ [][BodyNext]_vars

(***************************************************************************)
(* Properties of the token lifecycle manager (checked under SpecAuth)      *)
(***************************************************************************)
OutstandingRefreshCalls == {k \in 1..Len(ops) : ops[k].phase = "fetch"}

\* C1: in every reachable state at most one refresh network call to the
\* token endpoint is outstanding, whatever the interleaving of callers,
\* including callers still suspended in the initial load of the file.
C1_SingleOutstandingRefresh == Cardinality(OutstandingRefreshCalls) <= 1

\* C1 witness: a refresh call is outstanding while one caller awaits it and
\* another caller is still suspended in the initial credential load.
C1_Witness ==
    /\ OutstandingRefreshCalls # {}
    /\ \E c, d \in Callers :
          /\ pc[c] = "waiting"
          /\ pc[d] \in {"loading", "loaded"}

\* Two callers belong to one set of C2: both called while the cached
\* credential was present and expired, with no refresh completing between.
SameRound(c, d) ==
    /\ sawExpired[c]
    /\ sawExpired[d]
    /\ epoch[c] = epoch[d]

SameOutcome(c, d) ==
    (pc[c] = "done" /\ pc[d] = "done") =>
        /\ result[c] = result[d]
        /\ result[c] = ops[joined[c]].result
        /\ result[c].kind = "token" => result[c].val = joined[c]

\* C2 as stated: for every set of callers that call getAccessToken while the
\* cached credential is expired and before the refresh completes, exactly
\* one refresh network call is issued for the set and all its callers
\* receive the same outcome.
C2_ExactlyOneCallPerRound ==
    \A c, d \in Callers :
        SameRound(c, d) =>
            /\ joined[c] = joined[d]
            /\ ops[joined[c]].calls = 1
            /\ SameOutcome(c, d)

\* C2 amended: the callers of such a set share one refreshToken invocation,
\* which issues at most one network call - exactly one when the credential
\* carries a refresh token, none when it does not - and all of them receive
\* the same outcome: the refreshed access token, or the same failure.
C2_OneRefreshPerRound ==
    \A c, d \in Callers :
        SameRound(c, d) =>
            /\ joined[c] = joined[d]
            /\ ops[joined[c]].calls =
                  (IF ops[joined[c]].before.refresh = "" THEN 0 ELSE 1)
            /\ SameOutcome(c, d)

\* C2 witness: two callers of one set have both received the access token
\* obtained by the single refresh call they shared.
C2_Witness ==
    \E c, d \in Callers :
        /\ c # d
        /\ SameRound(c, d)
        /\ pc[c] = "done" /\ pc[d] = "done"
        /\ result[c].kind = "token"
        /\ ops[joined[c]].calls = 1

FailedRefreshes ==
    {k \in 1..Len(ops) : ops[k].result.kind = "refresh_failed"}

\* C3: when the token endpoint answers a refresh with a non-success status,
\* the credential object keeps the access token, refresh token and expiry
\* it had when the refresh started, every caller waiting on that refresh
\* receives the error once the refresh has completed, and none of them is
\* left in (or re-enters) a further refresh.
C3_FailurePropagatesUnchanged ==
    \A k \in FailedRefreshes :
        /\ ops[k].calls = 1
        /\ (~ops[k].cbDone) => heap[ops[k].auth] = ops[k].before
        /\ \A c \in Callers :
              (joined[c] = k /\ ops[k].cbDone) =>
                  /\ pc[c] = "done"
                  /\ result[c] = ops[k].result

\* C3 witness: a refresh failed with a non-success status and two callers
\* that waited on it have received the error.
C3_Witness ==
    \E k \in FailedRefreshes : \E c, d \in Callers :
        /\ c # d
        /\ joined[c] = k /\ joined[d] = k
        /\ pc[c] = "done" /\ pc[d] = "done"
        /\ result[c].kind = "refresh_failed"


\* The refreshes that succeeded.
Fulfilled == {k \in 1..Len(ops) : ops[k].phase = "fulfilled"}

\* The latest of them: refreshes are issued one after the other.
LastFulfilled == CHOOSE k \in Fulfilled : \A j \in Fulfilled : j <= k

\* C15: with the credential taken from the environment the credential file
\* is never written, whatever calls and refreshes happen; with the
\* credential taken from the file, each successful refresh has rewritten
\* the file with the refreshed credential by the time any caller that
\* waited for it receives the new token.
C15_FileWrittenOnlyForFileCredential ==
    /\ envToken => fileWrites = 0 /\ ~file.exists
    /\ ~envToken =>
          /\ fileWrites = Cardinality(Fulfilled)
          /\ Fulfilled # {} =>
                /\ file.exists
                /\ file.cred.access = LastFulfilled
                /\ (\A k \in 1..Len(ops) : ops[k].phase # "write") =>
                       file.cred = heap[ops[LastFulfilled].auth]
          /\ \A c \in Callers :
                joined[c] # NULL /\ result[c].kind = "token" =>
                    /\ result[c].val = joined[c]
                    /\ joined[c] \in Fulfilled
                    /\ file.cred.access >= joined[c]

\* C15 witness: an environment credential has been refreshed twice, a
\* caller that waited holds the second token, and the file was never
\* written.
C15_Witness ==
    /\ envToken
    /\ Cardinality(Fulfilled) = 2
    /\ \E c \in Callers : joined[c] = 2 /\ result[c] = TokenResult(2)
    /\ fileWrites = 0

\* C16: once a refresh has completed - fulfilled or rejected, its .finally
\* callback run - the slot does not hold it any more; a caller is never
\* handed a refresh that had completed before, so one that finds the
\* credential expired afterwards starts a new refresh call; and a refresh
\* is started only on a credential that is not valid at that moment.
C16_SlotClearedOnCompletion ==
    [][/\ \A k \in 1..Len(ops') : ops'[k].cbDone => refreshing' # k
       /\ \A c \in Callers :
             joined'[c] # joined[c] =>
                 \/ joined'[c] = Len(ops) + 1 /\ Len(ops') = Len(ops) + 1
                 \/ joined'[c] \in 1..Len(ops) /\ ~ops[joined'[c]].cbDone
       /\ Len(ops') > Len(ops) =>
             /\ Len(ops') = Len(ops) + 1
             /\ refreshing = NULL
             /\ refreshing' = Len(ops')
             /\ ~IsValid(heap'[cached'])
             /\ ops'[Len(ops')].auth = cached']_vars

\* C16 witness: the first refresh was rejected and has completed, and a
\* caller that then found the credential expired waits on a second refresh
\* call, which holds the slot.
C16_Witness ==
    /\ Len(ops) = 2
    /\ ops[1].phase = "rejected" /\ ops[1].cbDone
    /\ ops[1].result.kind = "refresh_failed"
    /\ refreshing = 2
    /\ ops[2].calls = 1
    /\ \E c \in Callers : joined[c] = 2 /\ pc[c] = "waiting"

(***************************************************************************)
(* Properties of the streaming response interceptor (SpecStream)           *)
(***************************************************************************)
Intercepted == {r \in Requests : reqs[r].kind = "intercepted"}

\* The symbols the pump has read from the upstream body of request r.
ReadSoFar(r) == SubSeq(Bodies[reqs[r].body], 1, reqs[r].pos)

\* C4: for every upstream body and every way of splitting it into read
\* chunks, the symbols enqueued downstream are exactly the symbols read
\* from upstream, whether or not any frame parses; on completion they are
\* the whole body.
C4_ForwardedIsUpstream ==
    \A r \in Intercepted :
        /\ reqs[r].down = "readable" => reqs[r].out = ReadSoFar(r)
        /\ reqs[r].down = "closed" => reqs[r].out = Bodies[reqs[r].body]

\* C4 witness: one stream holding a frame of an unrecognized kind, a
\* malformed frame and an unterminated frame has been forwarded completely, while another has been
\* read up to the middle of a blank-line separator.
C4_Witness ==
    \E r, p \in Intercepted :
        /\ reqs[r].down = "closed"
        /\ reqs[r].body = 2
        /\ reqs[r].out = Bodies[2]
        /\ reqs[p].down = "readable"
        /\ reqs[p].buf # <<>>
        /\ reqs[p].buf[Len(reqs[p].buf)] = NL
        /\ reqs[p].out = ReadSoFar(p)

RECURSIVE SumRecorded(_)
SumRecorded(r) == IF r = 0 THEN 0 ELSE reqs[r].recorded + SumRecorded(r - 1)

\* C5: every intercepted stream that reaches upstream end-of-stream has
\* exactly one Usage Record appended to the ledger, never zero and never
\* two, whatever events appeared in it; the ledger holds no other records.
C5_OneRecordPerCompletedStream ==
    /\ \A r \in Intercepted :
          /\ reqs[r].eos => reqs[r].recorded = 1
          /\ reqs[r].recorded <= 1
    /\ stats.totalRequests = SumRecorded(MaxRequests)
    /\ Len(stats.recentRequests) = stats.totalRequests

\* C5 witness: a stream without any event (an empty body) and a stream with
\* message_start and message_delta have both ended and been recorded.
C5_Witness ==
    \E r, p \in Intercepted :
        /\ reqs[r].eos /\ reqs[r].body = 3 /\ reqs[r].recorded = 1
        /\ reqs[p].eos /\ reqs[p].body = 1 /\ reqs[p].recorded = 1
        /\ stats.totalRequests = 2

C9_EveryCompletedRequestRecorded ==
    \A r \in Requests : reqs[r].completed => reqs[r].recorded = 1

\* C10 as stated: when the downstream consumer cancels an intercepted stream
\* before upstream end-of-stream, the interceptor stops and releases the
\* upstream body, and no Usage Record is appended for that request even if
\* the upstream later reaches end-of-stream.
C10_CancelReleasesAndSkipsRecord ==
    \A r \in Intercepted :
        reqs[r].cancelled =>
            /\ reqs[r].recorded = 0
            /\ reqs[r].pump = "stopped" => reqs[r].up # "open"

\* The telemetry of a body read as a whole: every frame of it, the last
\* one included whether or not a blank line follows it.
WholeTelemetry(b) == ProcessParts(InitialTelemetry, Split(b, Sep))

\* C11 as stated: the telemetry a stream ends with depends on its bytes
\* only - every frame is processed once however the reads split it, and
\* the fragment pending at end-of-stream is processed too - so it is the
\* telemetry of the body read as a whole.
C11_TelemetryOfWholeBody ==
    \A r \in Intercepted :
        reqs[r].eos => reqs[r].tel = WholeTelemetry(Bodies[reqs[r].body])

\* The events of a body that arrive in a frame of their own, closed by a
\* blank line.
FramedEvents(b) == {sym \in KnownPayloads : Includes(b, Frame(sym))}

\* The field a record is to carry: that of the event when the stream
\* delivered it, the default otherwise.
FieldOf(b, sym, value, default) ==
    IF sym \in FramedEvents(b) THEN value ELSE default

Min(a, b) == IF a < b THEN a ELSE b

\* C8: after any sequence of completions the recent-request list holds at
\* most MAX_RECENT records, newest first: its i-th element is the i-th most
\* recently recorded one, so the first is the latest completion and the
\* records missing from it are the oldest ones.
C8_RecentIsNewestFirstWindow ==
    LET recent == stats.recentRequests
        n == Len(history)
    IN  /\ Len(recent) <= MAX_RECENT
        /\ Len(recent) = Min(n, MAX_RECENT)
        /\ \A i \in 1..Len(recent) : recent[i] = history[n - i + 1]

\* C8 witness: two records more than the list can hold have been recorded,
\* the oldest of them - one with token counts - is gone from the list, and
\* the list starts with the latest.
C8_Witness ==
    /\ Len(history) = MAX_RECENT + 2
    /\ history[1].inputTokens > 0
    /\ Len(stats.recentRequests) = MAX_RECENT
    /\ stats.recentRequests[1] = history[Len(history)]
    /\ \A i \in 1..MAX_RECENT : stats.recentRequests[i] # history[1]

(***************************************************************************)
(* Properties of the request pipeline (SpecBody)                           *)
(***************************************************************************)
Max(a, b) == IF a > b THEN a ELSE b

\* C7 as stated: after cache-control placement the body forwarded upstream
\* never carries more than 4 cache_control annotations across system,
\* messages and tools.
C7_AtMostFourAnnotations ==
    relayed /\ config.CACHE_ENABLED => countCache(body) <= MAX_CACHE_BLOCKS

\* C7 (amended): the pipeline removes no annotation and adds one only while
\* fewer than 4 are counted, so the forwarded body carries at most 4 when
\* the received body carried at most 4, and otherwise exactly as many as
\* the received body.
C7_NeverAddsBeyondFour ==
    relayed =>
        /\ countCache(inBody) <= countCache(body)
        /\ countCache(body) <= Max(MAX_CACHE_BLOCKS, countCache(inBody))

\* C7 witness: a body received with 3 annotations and an unannotated last
\* tool was forwarded with 4: the system prompt took the last free
\* annotation and the tools got none.
C7_Witness ==
    /\ relayed
    /\ config.CACHE_ENABLED
    /\ countCache(inBody) = 3
    /\ countCache(body) = MAX_CACHE_BLOCKS
    /\ inBody.tools.kind = "list"
    /\ Len(inBody.tools.items) > 0
    /\ ~inBody.tools.items[Len(inBody.tools.items)].cache_control
    /\ ~body.tools.items[Len(inBody.tools.items)].cache_control

\* C13 as stated, for the bodies the pipeline has already forwarded: when
\* such a body comes back, the system-prompt step leaves the list of system
\* blocks as it was received, with or without a custom prompt, so no
\* block is inserted a second time.
C13_ReplayLeavesSystemUnchanged ==
    relayed /\ replays > 0 => body.system = inBody.system

\* String.prototype.endsWith(suffix)
EndsWith(str, suffix) ==
    /\ Len(str) >= Len(suffix)
    /\ SubSeq(str, Len(str) - Len(suffix) + 1, Len(str)) = suffix

\* C14 as stated: a model identifier that ends in "[1m]" is forwarded
\* without that trailing suffix and otherwise unchanged, also when "[1m]"
\* occurs earlier in it; an identifier that does not end in it is forwarded
\* unchanged.
C14_TrailingSuffixRemoved ==
    relayed /\ inBody.model.kind = "string" =>
        IF EndsWith(inBody.model.id, EXTENDED_SUFFIX)
        THEN body.model.id =
                SubSeq(inBody.model.id, 1,
                       Len(inBody.model.id) - Len(EXTENDED_SUFFIX))
        ELSE body.model.id = inBody.model.id

\* A block the code takes for the identity block (lines 265-267).
IsIdentityBlock(b) == b.type = "text" /\ Includes(b.text, CC_SYSTEM)

\* C17 as stated: in the forwarded body system is a list whose first
\* element is the identity block and, when a custom prompt is available,
\* whose second element is the custom block, wherever the identity text
\* stood in the received body; and no block carries the _proxy marker.
C17_IdentityFirstCustomSecond ==
    relayed =>
        /\ body.system.kind = "list"
        /\ Len(body.system.blocks) >= 1
        /\ IsIdentityBlock(body.system.blocks[1])
        /\ getCustomSystem # <<>> =>
              /\ Len(body.system.blocks) >= 2
              /\ body.system.blocks[2].text = getCustomSystem
        /\ \A i \in 1..Len(body.system.blocks) : ~body.system.blocks[i]._proxy

\* The edits the client supplied: none unless context_management.edits is
\* a list.
ClientEdits ==
    IF inBody.context_management.kind = "object"
       /\ inBody.context_management.editsIsArray
    THEN inBody.context_management.edits ELSE <<>>

CountEdits(edits, type) == Cardinality({i \in 1..Len(edits) : edits[i].type = type})

EditEnabled(type) ==
    IF type = COMPACT_EDIT THEN config.COMPACTION_ENABLED
    ELSE config.CLEAR_TOOLS_ENABLED

\* C18 as stated: for a model of the high-capability tier the forwarded
\* edits hold at most one entry per kind, each enabled kind exactly once,
\* and every client-supplied edit in its order ahead of the appended ones,
\* whatever list the client supplied.
C18_EachEditKindOnce ==
    relayed /\ isOpus(body.model) =>
        LET out == body.context_management.edits
        IN  /\ SubSeq(out, 1, Len(ClientEdits)) = ClientEdits
            /\ \A type \in {COMPACT_EDIT, CLEAR_TOOLS_EDIT} :
                  /\ CountEdits(out, type) <= 1
                  /\ EditEnabled(type) => CountEdits(out, type) = 1

\* C18 (amended): the client-supplied edits are forwarded as they came, in
\* their order and with their duplicates, ahead of the appended ones; an
\* edit of an enabled kind is appended exactly when the client supplied
\* none of that kind, so each enabled kind is present, and present exactly
\* once unless the client itself supplied it more than once.
C18_AppendsMissingEditsOnly ==
    relayed /\ isOpus(body.model) =>
        LET out == body.context_management.edits
        IN  /\ body.context_management.kind = "object"
            /\ body.context_management.editsIsArray
            /\ SubSeq(out, 1, Len(ClientEdits)) = ClientEdits
            /\ \A i \in Len(ClientEdits) + 1..Len(out) :
                  out[i].type \in {COMPACT_EDIT, CLEAR_TOOLS_EDIT}
            /\ \A type \in {COMPACT_EDIT, CLEAR_TOOLS_EDIT} :
                  CountEdits(out, type) =
                      IF CountEdits(ClientEdits, type) > 0
                      THEN CountEdits(ClientEdits, type)
                      ELSE IF EditEnabled(type) THEN 1 ELSE 0

\* C18 witness: the client sent a compaction edit and another edit; both
\* features are on; the forwarded list is the client's two edits followed
\* by the tool-result clearing edit.
C18_Witness ==
    /\ relayed
    /\ isOpus(body.model)
    /\ config.COMPACTION_ENABLED /\ config.CLEAR_TOOLS_ENABLED
    /\ ClientEdits = <<Edit(COMPACT_EDIT), Edit("clear_thinking_20251015")>>
    /\ body.context_management.edits =
          <<Edit(COMPACT_EDIT), Edit("clear_thinking_20251015"),
            Edit(CLEAR_TOOLS_EDIT)>>

\* The flags of a comma-separated beta header value.
FlagsOf(header) ==
    IF header = <<>> THEN <<>>
    ELSE [i \in 1..Len(Split(header, Comma)) |-> Trim(Split(header, Comma)[i])]

CountFlag(flags, flag) == Cardinality({i \in 1..Len(flags) : flags[i] = flag})

\* The beta flags of the features activated for the forwarded request.
ActivatedBetas ==
    (IF isOpus(body.model) /\ config.COMPACTION_ENABLED
     THEN {COMPACTION_BETA} ELSE {})
    \cup (IF isOpus(body.model) /\ config.CLEAR_TOOLS_ENABLED
          THEN {CONTEXT_MGMT_BETA} ELSE {})
    \cup (IF config.WEB_FETCH_ENABLED THEN {WEB_FETCH_BETA} ELSE {})

\* C19: for every incoming beta header value the outgoing header keeps
\* every client-supplied flag, contains every required flag, contains the
\* flag of each activated feature as a list element exactly once, and
\* holds no flag twice.
C19_BetaHeaderIsUnion ==
    relayed =>
        LET out == FlagsOf(betas)
            client == FlagsOf(inBetas)
        IN  /\ \A i \in 1..Len(client) : CountFlag(out, client[i]) >= 1
            /\ \A i \in 1..Len(REQUIRED_BETAS) :
                  CountFlag(out, REQUIRED_BETAS[i]) >= 1
            /\ \A flag \in ActivatedBetas : CountFlag(out, flag) = 1
            /\ \A i \in 1..Len(out) : CountFlag(out, out[i]) = 1

\* The intercepted streams whose pump has been started and has not yet
\* left its loop.
InFlight == {r \in Intercepted : reqs[r].pump # "stopped"}

\* C20: activeRequests equals the number of intercepted streams that have
\* been started and have not yet terminated; it is never negative, and it
\* is 0 once every started stream has terminated, by end-of-stream, by an
\* upstream read error or by a downstream cancellation.
C20_ActiveCountsInFlight ==
    /\ stats.activeRequests >= 0
    /\ stats.activeRequests = Cardinality(InFlight)

(***************************************************************************)
(* Aggregates of the ledger (SpecLedger)                                   *)
(***************************************************************************)
RECURSIVE SumField(_, _)
SumField(h, field) ==
    IF h = <<>> THEN 0 ELSE Head(h)[field] + SumField(Tail(h), field)

\* C21: after any interleaving of completions totalRequests is the number
\* of records ever recorded and each aggregate is the sum of its field over
\* all of them, the ones no longer in the recent list included; no state
\* shows the counters of a record without its entry in the list or the
\* other way round.
C21_AggregatesAreSumsOverAllRecords ==
    /\ stats.totalRequests = Len(history)
    /\ stats.totalInputTokens = SumField(history, "inputTokens")
    /\ stats.totalOutputTokens = SumField(history, "outputTokens")
    /\ stats.totalCacheCreation = SumField(history, "cacheCreation")
    /\ stats.totalCacheRead = SumField(history, "cacheRead")
    /\ Len(stats.recentRequests) = Min(stats.totalRequests, MAX_RECENT)
    /\ stats.totalRequests > 0 =>
          stats.recentRequests[1] = history[Len(history)]

\* C21 witness: two streams were open together, two records with token
\* counts have been recorded, the first of them has left the recent list,
\* and the aggregates still count it.
C21_Witness ==
    /\ Len(history) > MAX_RECENT
    /\ history[1].inputTokens > 0
    /\ \E i \in 2..Len(history) : history[i].inputTokens > 0
    /\ stats.activeRequests = MaxActive - 1
    /\ stats.totalInputTokens = 2 * history[1].inputTokens
    /\ stats.totalInputTokens >
          SumField(stats.recentRequests, "inputTokens")

(***************************************************************************)
(* The in-memory credential after a refresh (SpecAuth)                     *)
(***************************************************************************)
\* C22: once a refresh has succeeded the in-memory credential is never
\* replaced by an older one: cached holds the token of the latest
\* successful refresh or a newer one, whichever caller resumes afterwards
\* (one whose load of the file began before the refresh included), and a
\* refresh issued after a successful one starts from the refreshed
\* credential, never from pre-refresh values.
C22_RefreshedCredentialNotRolledBack ==
    /\ Fulfilled # {} =>
          /\ cached # NULL
          /\ heap[cached].access >= LastFulfilled
    /\ \A k \in 1..Len(ops) : \A j \in Fulfilled :
          j < k => ops[k].before.access >= j

====
